---- MODULE Spec2Model ----
(***************************************************************************)
(* Model of the Ram front end: process.py (process_ram, create_blocks,     *)
(* main_parser), parsing/parsing.py (Line, Block and its three variants,   *)
(* parse_return, parse_display) and exceptions.py.                         *)
(*                                                                         *)
(* A raw line is modelled as the sequence of its whitespace-delimited      *)
(* words (what str.split() returns); "{" and "}" are words of their own.   *)
(* Python objects that are mutated after construction (Block instances)    *)
(* live in a heap indexed by the line number of their opener.              *)
(***************************************************************************)
EXTENDS Integers, Sequences, FiniteSets, TLC

(***************************************************************************)
(* Bounds of the model.                                                    *)
(***************************************************************************)
MaxLines == 5
MaxChain == 2
MaxDepth == 3

(***************************************************************************)
(* Generic helpers on sequences.                                           *)
(***************************************************************************)
Has(s, w) == \E i \in 1..Len(s) : s[i] = w

IndexOf(s, w) == CHOOSE i \in 1..Len(s) : s[i] = w /\ \A j \in 1..(i - 1) : s[j] /= w

Prefix(s, n) == IF n >= Len(s) THEN s ELSE SubSeq(s, 1, n)

From(s, n) == IF n > Len(s) THEN <<>> ELSE SubSeq(s, n, Len(s))

ButLast(s) == IF Len(s) = 0 THEN s ELSE SubSeq(s, 1, Len(s) - 1)

(***************************************************************************)
(* Exceptions.  An exception value carries its class, the line text and    *)
(* line number given to its constructor (empty text and 0 when the class   *)
(* has none) and its message.                                              *)
(***************************************************************************)
NoExc == [kind |-> "None", line |-> <<>>, number |-> 0, msg |-> ""]

Raised(e) == e.kind /= "None"

\* exceptions.py: every class below derives from RamException
Taxonomy == {"RamException", "RamSyntaxException", "RamSyntaxKeywordException",
             "RamSyntaxOperatorException", "RamNameException"}

IsRamException(e) == e.kind \in Taxonomy

\* RamException.__init__(line, line_number, message)
RamException(line, number, message) ==
    [kind |-> "RamException", line |-> line, number |-> number, msg |-> message]

\* Python raises TypeError when a constructor is called with too few arguments
TypeError(message) == [kind |-> "TypeError", line |-> <<>>, number |-> 0, msg |-> message]

IndexError == [kind |-> "IndexError", line |-> <<>>, number |-> 0,
               msg |-> "list index out of range"]

\* RamSyntaxException('...') : one positional argument where __init__ needs
\* (line, line_number); the call itself fails
RamSyntaxException1(arg) ==
    TypeError("RamSyntaxException.__init__() missing 1 required positional argument: 'line_number'")

\* RamSyntaxKeywordException(word) : one positional argument where __init__
\* needs (line, line_number, foreign); the call itself fails
RamSyntaxKeywordException1(arg) ==
    TypeError("RamSyntaxKeywordException.__init__() missing 2 required positional arguments: 'line_number' and 'foreign'")

\* the catch-all wrapper raised by main_parser; the class is not in exceptions.py
RamGeneralException(message) ==
    [kind |-> "RamGeneralException", line |-> <<>>, number |-> 0, msg |-> message]

(***************************************************************************)
(* Tokenizer and expression parser (parse_linear.lexify and                *)
(* parse_variables.parse_expression are not among the sources).            *)
(***************************************************************************)
OPERATORS == {"+", "-", "/", "*", "not", "or", "and"}

\* the binary infix operators of the expression grammar
BinaryOps == (OPERATORS \ {"not"}) \cup {"is"}

Numerals == {"0", "1", "2", "4"}

\* words are already the atoms of an expression without parentheses
lexify(words) == words

Leaf(tok) == IF tok \in Numerals THEN [t |-> "Literal", v |-> tok]
             ELSE [t |-> "Variable", v |-> tok]

OperatorError(tok) == [kind |-> "RamSyntaxOperatorException", line |-> <<>>,
                       number |-> 0, msg |-> tok]

RECURSIVE ParseLeft(_, _, _)
\* left-to-right binding: acc is the tree built from the tokens before index i
ParseLeft(toks, i, acc) ==
    IF i > Len(toks) THEN [val |-> acc, exc |-> NoExc]
    ELSE IF toks[i] \notin BinaryOps THEN [val |-> acc, exc |-> OperatorError(toks[i])]
    ELSE IF i + 1 > Len(toks) \/ toks[i + 1] \in BinaryOps
         THEN [val |-> acc, exc |-> OperatorError(toks[i])]
    ELSE ParseLeft(toks, i + 2,
                   [t |-> "BinaryOp", op |-> toks[i], left |-> acc, right |-> Leaf(toks[i + 1])])

EmptyExpr == [t |-> "Empty"]

parse_expression(toks) ==
    IF Len(toks) = 0 THEN [val |-> EmptyExpr, exc |-> NoExc]
    ELSE IF toks[1] \in BinaryOps THEN [val |-> EmptyExpr, exc |-> OperatorError(toks[1])]
    ELSE ParseLeft(toks, 2, Leaf(toks[1]))

(***************************************************************************)
(* Results.  An operator that models a function returns a record with the  *)
(* value returned and the exception raised (NoExc when it returns); the    *)
(* functions that can reach a Block's parse also return the heap.  Where   *)
(* the outcome r of one call is handed on, CHOOSE out \in {F(r) : r \in {e}}*)
(* is F(e) with e evaluated once.                                          *)
(***************************************************************************)
Fail(e) == [val |-> EmptyExpr, exc |-> e]

FailHeap(e, h) == [val |-> EmptyExpr, heap |-> h, exc |-> e]

WithHeap(r, h) == [val |-> r.val, heap |-> h, exc |-> r.exc]

(***************************************************************************)
(* class Line                                                              *)
(***************************************************************************)
\* Line.get_line_as_list: strs is the list of kept words followed by the
\* tokenized remainder; an empty remainder is removed from the list
get_line_as_list(line) ==
    IF Len(line) < 2
    THEN [val |-> [words |-> <<>>, tail |-> <<>>],
          exc |-> RamSyntaxException1("Error parsing.")]
    ELSE IF line[1] \in {"set", "reset", "send"}
    THEN [val |-> [words |-> Prefix(line, 4), tail |-> lexify(From(line, 5))],
          exc |-> NoExc]
    ELSE IF line[1] \in {"display", "call"}
    THEN [val |-> [words |-> Prefix(line, 1), tail |-> lexify(From(line, 2))],
          exc |-> NoExc]
    ELSE [val |-> [words |-> <<>>, tail |-> <<>>],
          exc |-> RamSyntaxKeywordException1(line[1])]

\* len(strs): the kept words plus one element for a non-empty remainder
StrsLen(strs) == Len(strs.words) + (IF strs.tail = <<>> THEN 0 ELSE 1)

\* Line.__init__, given the result of get_line_as_list
LineOf(line, number, r) ==
    [val |-> [t |-> "Line", line |-> line, number |-> number, strs |-> r.val,
              keyword |-> IF Raised(r.exc) THEN "" ELSE r.val.words[1]],
     exc |-> r.exc]

\* Line(line, number)
Line(line, number) == LineOf(line, number, get_line_as_list(line))

\* parse_return(return_list), given the length of the list and its items
parse_return(len, first, second, rest) ==
    IF len /= 3 THEN Fail(RamSyntaxException1("Return statement not parseable."))
    ELSE IF first /= "send" THEN Fail(RamSyntaxKeywordException1(first))
    ELSE IF second /= "back" THEN Fail(RamSyntaxKeywordException1(second))
    ELSE parse_expression(rest)

QuotedWords == {"\"Reset\""}

\* Display(expr) around a parsed expression
DisplayOf(r) == [val |-> [t |-> "Display", expr |-> r.val], exc |-> r.exc]

\* parse_display(line, value)
parse_display(line, value) ==
    CHOOSE out \in {DisplayOf(r) :
                      r \in {parse_expression(IF line[2] \in QuotedWords
                                              THEN From(line, 2) ELSE value)}} : TRUE

\* the Assign statement around a parsed expression
AssignOf(line, type, rest, r) ==
    IF Len(rest.words) /= 2 \/ rest.words[2] /= "to" \/ rest.tail = <<>>
    THEN Fail([kind |-> "RamSyntaxException", line |-> <<>>, number |-> 0,
               msg |-> "Variable assignment"])
    ELSE [val |-> [t |-> "Assign", name |-> rest.words[1], type |-> type,
                   expr |-> r.val, reset |-> line[1] = "reset"],
          exc |-> r.exc]

\* parse_variables.parse_variable (not among the sources)
parse_variable(line, type, rest) == AssignOf(line, type, rest, parse_expression(rest.tail))

\* Line.parse: the body of the try statement
LineParseBody(l) ==
    IF l.keyword \in {"set", "reset"}
    THEN parse_variable(l.line, l.strs.words[2],
                        [words |-> From(l.strs.words, 3), tail |-> l.strs.tail])
    ELSE IF l.keyword = "display" THEN parse_display(l.line, l.strs.tail)
    ELSE IF l.keyword = "send"
    THEN parse_return(StrsLen(l.strs), l.strs.words[1], l.strs.words[2],
                      From(l.strs.words, 3))
    ELSE IF l.keyword = "call" THEN parse_expression(l.strs.tail)
    ELSE Fail(RamSyntaxKeywordException1(l.keyword))

\* the except clause of Line.parse: a RamException is replaced by a
\* RamException with this line's text and number, anything else passes
LineParseHandler(l, e) ==
    IF IsRamException(e) THEN RamException(l.line, l.number, e.msg) ELSE e

\* Line.parse, given the outcome r of the try block
LineParseOf(l, r) ==
    [val |-> r.val, exc |-> IF Raised(r.exc) THEN LineParseHandler(l, r.exc) ELSE NoExc]

\* Line.parse
LineParse(l) == CHOOSE out \in {LineParseOf(l, r) : r \in {LineParseBody(l)}} : TRUE

(***************************************************************************)
(* class Block and its variants.  An element of a block list is a tuple    *)
(* (text, number), a Line, or a reference to a Block of the heap.          *)
(***************************************************************************)
Tuple(text, number) == [t |-> "tuple", text |-> text, number |-> number]

BlockRef(id) == [t |-> "Block", id |-> id]

\* a Python list held as an element of another list
List(items) == [t |-> "list", items |-> items]

AttributeError(message) ==
    [kind |-> "AttributeError", line |-> <<>>, number |-> 0, msg |-> message]

\* a non-list where evaluate_line or FunctionBlock.parse expects a list
NoAppend == AttributeError("object has no attribute 'append'")

\* a tuple where a Line or a Block is expected
NoParse == AttributeError("'tuple' object has no attribute 'parse'")

\* text[0 : text.index('{')]
HeaderOf(text) == Prefix(text, IndexOf(text, "{") - 1)

\* Block.__init__ followed by the variant's __init__ on the one-element list
\* [(text, number)]: evaluate_line finds nothing after the opener
Block(text, number) ==
    IF text[1] \notin {"loop", "new", "if"}
    THEN [val |-> [t |-> "none"], exc |-> RamSyntaxKeywordException1(text[1])]
    ELSE [val |-> [block |-> <<Tuple(text, number)>>, header |-> HeaderOf(text),
                   keyword |-> HeaderOf(text)[1], contents |-> <<List(<<>>)>>,
                   parses |-> 0],
          exc |-> NoExc]

\* str.split('to') on the text after 'from ': "to" is cut out wherever it
\* occurs, also inside a word
ToInside == [w \in {"stop"} |-> <<"s", "p">>]

RECURSIVE SplitTo(_, _, _)
SplitTo(words, i, pieces) ==
    IF i > Len(words) THEN pieces
    ELSE IF words[i] = "to" THEN SplitTo(words, i + 1, Append(pieces, <<>>))
    ELSE IF words[i] \in DOMAIN ToInside
    THEN SplitTo(words, i + 1,
                 Append(Append(ButLast(pieces),
                               Append(pieces[Len(pieces)], ToInside[words[i]][1])),
                        <<ToInside[words[i]][2]>>))
    ELSE SplitTo(words, i + 1,
                 Append(ButLast(pieces), Append(pieces[Len(pieces)], words[i])))

\* the words after the first "from"
AfterFirstFrom(header) == From(header, IndexOf(header, "from") + 1)

\* the words of rest before its first "from"
BeforeFrom(rest) ==
    IF Has(rest, "from") THEN Prefix(rest, IndexOf(rest, "from") - 1) ELSE rest

\* header.split('from ')[1]: the text between the first and the second 'from '
AfterFrom(header) == BeforeFrom(AfterFirstFrom(header))

\* the Loop statement of LoopBlock.parse, given the parsed start and stop
LoopOf(header_list, contents, start, stop) ==
    IF Raised(start.exc) THEN Fail(start.exc)
    ELSE IF Raised(stop.exc) THEN Fail(stop.exc)
    ELSE [val |-> [t |-> "Loop", var |-> header_list[3], start |-> start.val,
                   stop |-> stop.val, body |-> contents],
          exc |-> NoExc]

\* LoopBlock.parse once loop_values is split at 'to'
LoopSplit(header_list, contents, expression_normal) ==
    IF Len(expression_normal) < 2 THEN Fail(IndexError)
    ELSE IF Len(header_list) < 2 THEN Fail(IndexError)
    ELSE IF header_list[2] /= "with" THEN Fail(RamSyntaxKeywordException1(header_list[2]))
    ELSE IF Len(header_list) < 4 THEN Fail(IndexError)
    ELSE IF header_list[4] /= "from" THEN Fail(RamSyntaxKeywordException1(header_list[4]))
    ELSE CHOOSE out \in {LoopOf(header_list, contents, start, stop) :
                start \in {parse_expression(lexify(expression_normal[1]))},
                stop \in {parse_expression(lexify(expression_normal[2]))}} : TRUE

\* LoopBlock.parse
LoopParse(header, contents) ==
    IF ~Has(header, "from") THEN Fail(IndexError)
    ELSE CHOOSE out \in {LoopSplit(header, contents, expression_normal) :
                expression_normal \in {SplitTo(AfterFrom(header), 1, <<<<>>>>)}} : TRUE

\* header_list[4].replace(' ', '').replace('(', '').replace(')', '').split(',')
ParamNames == [w \in {"(a)", "(a,b)", "(a,", "b)"} |->
                 CASE w = "(a)" -> <<"a">>
                   [] w = "(a,b)" -> <<"a", "b">>
                   [] w = "(a," -> <<"a", "">>
                   [] w = "b)" -> <<"b">>]

\* Function(function_name, param_names, self.contents[0], rturn_expr): the
\* statement holds the list contents[0] itself, named here by the block's id
Function(header_list, id, rturn_expr) ==
    [t |-> "Function", name |-> header_list[3],
     params |-> IF header_list[5] \in DOMAIN ParamNames
                THEN ParamNames[header_list[5]] ELSE <<header_list[5]>>,
     body |-> id, ret |-> rturn_expr]

\* FunctionBlock.parse when block[-2] is a 'send' Line, given the outcome of
\* parse_return on it
FunctionReturn(id, h, ret) ==
    IF Raised(ret.exc) THEN FailHeap(ret.exc, h)
    ELSE IF h[id].contents[1].t /= "list" THEN FailHeap(NoAppend, h)
    ELSE IF h[id].contents[1].items = <<>> THEN FailHeap(IndexError, h)
    ELSE [val |-> Function(h[id].header, id, ret.val),
          heap |-> [h EXCEPT ![id].contents[1].items = ButLast(@)],
          exc |-> NoExc]

\* FunctionBlock.parse on the block of the heap with this id, last being
\* block[-2]
FunctionLast(id, h, last) ==
    IF last.t = "Line" /\ Has(last.line, "send")
    THEN FunctionReturn(id, h, parse_return(Len(last.line), last.line[1], last.line[2],
                                            From(last.line, 3)))
    ELSE [val |-> Function(h[id].header, id, EmptyExpr), heap |-> h, exc |-> NoExc]

\* FunctionBlock.parse
FunctionParse(id, h) ==
    IF Len(h[id].header) /= 5
    THEN FailHeap(RamSyntaxException1("Function header cannot be parsed."), h)
    ELSE IF h[id].header[2] /= "function"
    THEN FailHeap(RamSyntaxKeywordException1(h[id].header[2]), h)
    ELSE IF h[id].header[4] /= "takes"
    THEN FailHeap(RamSyntaxKeywordException1(h[id].header[4]), h)
    ELSE IF Len(h[id].block) < 2 THEN FailHeap(IndexError, h)
    ELSE FunctionLast(id, h, h[id].block[Len(h[id].block) - 1])

\* str.split('is') on an if header, word by word
RECURSIVE SplitIs(_, _, _)
SplitIs(words, i, pieces) ==
    IF i > Len(words) THEN pieces
    ELSE IF words[i] = "is" THEN SplitIs(words, i + 1, Append(pieces, <<>>))
    ELSE SplitIs(words, i + 1,
                 Append(ButLast(pieces), Append(pieces[Len(pieces)], words[i])))

\* header.replace('if ', '')
RemoveIf(header) == SelectSeq(header, LAMBDA w : w /= "if")

\* the '} else ' prefix left in place
RemoveElseMissing(text) == text

\* text.replace("} else ", "")
RemoveElse(text) ==
    IF Len(text) >= 3 /\ text[1] = "}" /\ text[2] = "else" THEN From(text, 3) ELSE text

\* expression_left of IfBlock.parse, given the header split at 'is'
ExpressionLeft(expression_normal) ==
    IF Len(expression_normal) > 1
    THEN lexify(expression_normal[1]) \o <<"is">> \o lexify(expression_normal[2])
    ELSE lexify(expression_normal[1])

\* the condition expression of IfBlock.parse
IfCondition(header) ==
    parse_expression(ExpressionLeft(SplitIs(RemoveIf(header), 1, <<<<>>>>)))

If(cond, body, else_body) ==
    [t |-> "If", branches |-> <<[cond |-> cond, body |-> body]>>, else_body |-> else_body]

RECURSIVE ItemParse(_, _)
RECURSIVE BlockParse(_, _)
RECURSIVE EvalLineLoop(_, _, _, _, _)
RECURSIVE IfActionsLoop(_, _, _, _)
RECURSIVE IfParse(_, _, _)

\* item.parse() for an element of a block list or of the top-level list
ItemParse(item, h) ==
    IF item.t = "Line"
    THEN CHOOSE out \in {WithHeap(r, h) : r \in {LineParse(item)}} : TRUE
    ELSE IF item.t = "Block" THEN BlockParse(item.id, h)
    ELSE FailHeap(NoParse, h)

\* Block.evaluate_line: element i is a Block or a Line and r is the outcome
\* of its parse(), appended to the last list of contents or to contents
EvalLineItem(block, i, contents, created_index, h, r) ==
    IF block[i].t = "Block" \/ created_index /= "None"
    THEN IF contents[Len(contents)].t /= "list"
         THEN [contents |-> contents, heap |-> h, exc |-> NoAppend]
         ELSE IF Raised(r.exc) THEN [contents |-> contents, heap |-> r.heap, exc |-> r.exc]
         ELSE EvalLineLoop(block, i + 1,
                  Append(ButLast(contents),
                         List(Append(contents[Len(contents)].items, r.val))),
                  created_index, r.heap)
    ELSE IF Raised(r.exc) THEN [contents |-> contents, heap |-> r.heap, exc |-> r.exc]
    ELSE EvalLineLoop(block, i + 1, Append(contents, r.val), created_index, r.heap)

\* the for loop of Block.evaluate_line from element i of the block list on
EvalLineLoop(block, i, contents, created_index, h) ==
    IF i > Len(block) THEN [contents |-> contents, heap |-> h, exc |-> NoExc]
    ELSE IF block[i].t = "tuple" /\ block[i].text /= <<"}">>
    THEN EvalLineLoop(block, i + 1, Append(contents, List(<<block[i]>>)), "list", h)
    ELSE IF block[i].t = "tuple"
    THEN EvalLineLoop(block, i + 1, contents, "None", h)
    ELSE CHOOSE out \in {EvalLineItem(block, i, contents, created_index, h, r) :
                r \in {ItemParse(block[i], h)}} : TRUE

\* Block.evaluate_line on a block list
evaluate_line(block, h) == EvalLineLoop(block, 2, <<List(<<>>)>>, "list", h)

\* if_actions.append(self.block[i].parse()), r being the outcome of the parse
IfActionsItem(block, i, acts, r) ==
    IF Raised(r.exc) THEN [acts |-> acts, idx |-> 0, heap |-> r.heap, exc |-> r.exc]
    ELSE IfActionsLoop(block, i + 1, Append(acts, r.val), r.heap)

\* the loops of IfBlock.parse that parse the elements from index i up to the
\* next tuple; idx is the index of that tuple, 0 when there is none
IfActionsLoop(block, i, acts, h) ==
    IF i > Len(block) THEN [acts |-> acts, idx |-> 0, heap |-> h, exc |-> NoExc]
    ELSE IF block[i].t = "tuple" THEN [acts |-> acts, idx |-> i, heap |-> h, exc |-> NoExc]
    ELSE CHOOSE out \in {IfActionsItem(block, i, acts, r) :
                r \in {ItemParse(block[i], h)}} : TRUE

\* return If([(expression, if_actions)], [IfBlock(...).parse()]), nested
\* being the outcome of that parse
IfLink(expression, first, nested) ==
    IF Raised(nested.exc) THEN FailHeap(nested.exc, nested.heap)
    ELSE [val |-> If(expression.val, first.acts, <<nested.val>>), heap |-> nested.heap,
          exc |-> NoExc]

\* IfBlock(block=new_block, keyword='if').parse(), made being the outcome of
\* the evaluate_line that the constructor runs
IfNested(expression, first, new_block, made) ==
    IF Raised(made.exc) THEN FailHeap(made.exc, made.heap)
    ELSE CHOOSE out \in {IfLink(expression, first, nested) :
                nested \in {IfParse(new_block, HeaderOf(new_block[1].text),
                                    made.heap)}} : TRUE

\* new_block = self.block[else_index:] with '} else ' cut from its first text
NewBlock(block, else_index) ==
    <<Tuple(RemoveElse(block[else_index].text), block[else_index].number)>>
        \o From(block, else_index + 1)

\* the branch of IfBlock.parse for an else marker that holds 'if'
IfElseIf(block, header_list, expression, first, new_block) ==
    IF Len(block[first.idx].text) < 3 THEN FailHeap(IndexError, first.heap)
    ELSE IF block[first.idx].text[2] /= "else" \/ block[first.idx].text[3] /= "if"
    THEN IF Len(header_list) < 2 THEN FailHeap(IndexError, first.heap)
         ELSE FailHeap(RamSyntaxKeywordException1(header_list[2]), first.heap)
    ELSE IF HeaderOf(new_block[1].text) = <<>> THEN FailHeap(IndexError, first.heap)
    ELSE CHOOSE out \in {IfNested(expression, first, new_block, made) :
                made \in {evaluate_line(new_block, first.heap)}} : TRUE

\* the branch of IfBlock.parse for a plain else, rest being the outcome of
\* parsing the elements after the marker
IfElse(expression, first, rest) ==
    IF Raised(rest.exc) THEN FailHeap(rest.exc, rest.heap)
    ELSE [val |-> If(expression.val, first.acts, rest.acts), heap |-> rest.heap,
          exc |-> NoExc]

\* IfBlock.parse, given the parsed condition and the outcome of the first loop
IfThen(block, header_list, h, expression, first) ==
    IF Raised(expression.exc) THEN FailHeap(expression.exc, h)
    ELSE IF Raised(first.exc) THEN FailHeap(first.exc, first.heap)
    ELSE IF first.idx /= 0 /\ Has(block[first.idx].text, "if")
    THEN CHOOSE out \in {IfElseIf(block, header_list, expression, first, new_block) :
                new_block \in {NewBlock(block, first.idx)}} : TRUE
    ELSE IF first.idx /= 0
    THEN CHOOSE out \in {IfElse(expression, first, rest) :
                rest \in {IfActionsLoop(block, first.idx + 1, <<>>, first.heap)}} : TRUE
    ELSE [val |-> If(expression.val, first.acts, <<>>), heap |-> first.heap,
          exc |-> NoExc]

\* IfBlock.parse on a block list with its header
IfParse(block, header, h) ==
    CHOOSE out \in {IfThen(block, header, h, expression, first) :
              expression \in {IfCondition(header)},
              first \in {IfActionsLoop(block, 2, <<>>, h)}} : TRUE

\* the parse method of the variant that Block.make_child chose by keyword
BlockDispatch(id, h) ==
    IF h[id].keyword = "loop"
    THEN CHOOSE out \in {WithHeap(r, h) :
                r \in {LoopParse(h[id].header, h[id].contents)}} : TRUE
    ELSE IF h[id].keyword = "new" THEN FunctionParse(id, h)
    ELSE IfParse(h[id].block, h[id].header, h)

\* block.parse() on the block of the heap with this id; parses counts the
\* invocations
BlockParse(id, h) ==
    CHOOSE out \in {BlockDispatch(id, counted) :
              counted \in {[h EXCEPT ![id].parses = @ + 1]}} : TRUE

(***************************************************************************)
(* process.py                                                              *)
(***************************************************************************)
NullBlock == [block |-> <<>>, header |-> <<>>, keyword |-> "", contents |-> <<>>,
              parses |-> 0]

\* a closer that does not end the scan of its level
BreakMissing(file_lines, i) == i + 1

\* break: the index at which the for loop of create_blocks goes on after the
\* closer at index i, which is past the last line
Break(file_lines, i) == Len(file_lines) + 1

RECURSIVE CreateLoop(_, _, _, _, _)
RECURSIVE create_blocks(_, _, _, _)

\* block.evaluate_line(); contents.append(block), made being the outcome of
\* evaluate_line on the block's list
CreateAppend(file_lines, i, contents, block, whole, child, made) ==
    IF Raised(made.exc)
    THEN [contents |-> contents, visited |-> child.visited, heap |-> made.heap,
          exc |-> made.exc]
    ELSE CreateLoop(file_lines, i + 1, Append(contents, BlockRef(file_lines[i][2])),
             child.visited,
             [made.heap EXCEPT ![file_lines[i][2]] =
                 [block.val EXCEPT !.block = whole, !.contents = made.contents]])

\* block.block += block.contents, child being the outcome of the recursive
\* create_blocks
CreateChild(file_lines, i, contents, block, child) ==
    IF Raised(child.exc)
    THEN [contents |-> contents, visited |-> child.visited, heap |-> child.heap,
          exc |-> child.exc]
    ELSE CreateAppend(file_lines, i, contents, block, block.val.block \o child.contents,
                      child,
                      evaluate_line(block.val.block \o child.contents, child.heap))

\* the branch of create_blocks for a line that opens a block, block being the
\* outcome of Block([...]); the recursive call is
\* create_blocks(file_lines, line_index + 1, visited)
CreateBlock(file_lines, i, contents, visited, h, block) ==
    IF Raised(block.exc)
    THEN [contents |-> contents, visited |-> visited, heap |-> h, exc |-> block.exc]
    ELSE CreateChild(file_lines, i, contents, block,
                     create_blocks(file_lines, (i - 1) + 1, visited, h))

\* the branch of create_blocks for an ordinary line, line being the outcome
\* of Line(...)
CreateLine(file_lines, i, contents, visited, h, line) ==
    IF Raised(line.exc)
    THEN [contents |-> contents, visited |-> visited, heap |-> h, exc |-> line.exc]
    ELSE CreateLoop(file_lines, i + 1, Append(contents, line.val), visited, h)

\* one line that is not in visited: visited here holds its number already
CreateVisit(file_lines, i, contents, visited, h) ==
    IF Has(file_lines[i][1], "{")
    THEN IF Has(file_lines[i][1], "}")
         THEN CreateLoop(file_lines, i + 1,
                         Append(contents, Tuple(file_lines[i][1], file_lines[i][2])),
                         visited, h)
         ELSE CreateBlock(file_lines, i, contents, visited, h,
                          Block(file_lines[i][1], file_lines[i][2]))
    ELSE IF Has(file_lines[i][1], "}")
    THEN CreateLoop(file_lines, Break(file_lines, i),
                    Append(contents, Tuple(<<"}">>, file_lines[i][2])), visited, h)
    ELSE CreateLine(file_lines, i, contents, visited, h,
                    Line(file_lines[i][1], file_lines[i][2]))

\* the for loop of create_blocks from index i on (indices count from 1);
\* a line of file_lines is the pair <<text, number>>
CreateLoop(file_lines, i, contents, visited, h) ==
    IF i > Len(file_lines)
    THEN [contents |-> contents, visited |-> visited, heap |-> h, exc |-> NoExc]
    ELSE IF Has(visited, file_lines[i][2])
    THEN CreateLoop(file_lines, i + 1, contents, visited, h)
    ELSE CreateVisit(file_lines, i, contents, Append(visited, file_lines[i][2]), h)

create_blocks(file_lines, line_number, visited, h) ==
    CreateLoop(file_lines, line_number, <<>>, visited, h)

\* read_file_as_list: the stripped lines with their 1-based numbers
tupled_lines(ls) == [i \in 1..Len(ls) |-> <<ls[i], i>>]

\* process_ram: blank lines and comment lines are dropped first
process_ram(file_lines) ==
    create_blocks(SelectSeq(file_lines, LAMBDA l : l[1] /= <<>> /\ l[1][1] /= "%"),
                  1, <<>>, [n \in 1..Len(file_lines) |-> NullBlock])

RECURSIVE ParseAll(_, _, _, _)

\* statements.append(item.parse()), r being the outcome of the parse
ParseAllItem(items, i, stmts, r) ==
    IF Raised(r.exc) THEN [statements |-> stmts, heap |-> r.heap, exc |-> r.exc]
    ELSE ParseAll(items, i + 1, Append(stmts, r.val), r.heap)

\* main_parser: for item in code: statements.append(item.parse()), from
\* index i on
ParseAll(items, i, stmts, h) ==
    IF i > Len(items) THEN [statements |-> stmts, heap |-> h, exc |-> NoExc]
    ELSE ParseAllItem(items, i, stmts, ItemParse(items[i], h))

\* an except clause that re-raises whatever it caught
main_parser_reraise(e) == e

\* the except clause of main_parser
main_parser_handler(e) ==
    IF IsRamException(e) THEN e ELSE RamGeneralException(e.msg)

(***************************************************************************)
(* Source lines the model draws its inputs from.                           *)
(***************************************************************************)
LoopHeader == <<"loop", "with", "x", "from", "0", "to", "4", "{">>
LoopUsing == <<"loop", "using", "x", "from", "0", "to", "4", "{">>
LoopIn == <<"loop", "with", "x", "in", "0", "to", "4", "{">>
LoopStop == <<"loop", "with", "x", "from", "0", "to", "stop", "{">>
IfHeader == <<"if", "c", "is", "1", "{">>
FunctionHeader == <<"new", "function", "f", "takes", "(a)", "{">>
FunctionHeader2 == <<"new", "function", "add", "takes", "(a,", "b)", "{">>
Closer == <<"}">>
ElseMarker == <<"}", "else", "{">>
ElseIfMarker == <<"}", "else", "if", "d", "{">>
DisplayLine == <<"display", "x">>
DisplayBad == <<"display", "+">>
SetLine == <<"set", "integer", "v", "to", "1">>
SendLine == <<"send", "back", "a">>
SendSum == <<"send", "back", "a", "+", "b">>
UnknownLine == <<"frobnicate", "x">>
OneWord == <<"display">>
BlankLine == <<>>
CommentLine == <<"%", "note">>

CoreLines == {LoopHeader, IfHeader, FunctionHeader, Closer, ElseMarker, DisplayLine,
              SendLine}

AllLines == CoreLines \cup {BlankLine, LoopUsing, LoopIn, LoopStop, FunctionHeader2, ElseIfMarker,
                            DisplayBad, SetLine, SendSum, UnknownLine, OneWord,
                            CommentLine}

\* every sequence of at most MaxLines core lines
CoreInputs == UNION {[1..n -> CoreLines] : n \in 1..MaxLines}

\* well-formed programs in which one line is replaced by any line
Skeletons == {<<LoopHeader, LoopHeader, DisplayLine, Closer, Closer>>,
              <<IfHeader, FunctionHeader, DisplayLine, SendLine, Closer, Closer>>,
              <<FunctionHeader, DisplayLine, SetLine, SendLine, Closer>>,
              <<IfHeader, DisplayLine, ElseIfMarker, IfHeader, SetLine, Closer, Closer>>}

VariedInputs == UNION {{[s EXCEPT ![i] = l] : i \in 1..Len(s), l \in AllLines} :
                          s \in Skeletons}

\* loops nested d deep around one display line
RECURSIVE Repeat(_, _)
Repeat(l, n) == IF n = 0 THEN <<>> ELSE <<l>> \o Repeat(l, n - 1)

NestedInputs == {Repeat(h, d) \o <<DisplayLine>> \o Repeat(Closer, d) :
                    h \in {LoopHeader, IfHeader, FunctionHeader}, d \in 1..MaxDepth}

\* if / else if / ... / else chains with k conditional branches
Bodies == {<<>>, <<DisplayLine>>, <<SetLine, DisplayLine>>,
           <<LoopHeader, DisplayLine, Closer>>}

RECURSIVE ChainTail(_)
\* the lines after the first then-body of a chain with k more branches to come
ChainTail(k) ==
    IF k = 0 THEN {<<ElseMarker>> \o b \o <<Closer>> : b \in Bodies}
    ELSE {<<ElseIfMarker>> \o b \o t : b \in Bodies, t \in ChainTail(k - 1)}

ChainInputs == UNION {{<<IfHeader>> \o b \o t : b \in Bodies, t \in ChainTail(k - 1)} :
                         k \in 1..MaxChain}

\* every sequence of at most two lines of any kind
SmallInputs == UNION {[1..n -> AllLines] : n \in 1..2}

Inputs == CoreInputs \cup SmallInputs \cup VariedInputs \cup NestedInputs \cup ChainInputs

(***************************************************************************)
(* main_parser as a state machine: the file is read and nested, the        *)
(* top-level items are parsed one by one, and the function returns the     *)
(* Module or raises from its except clause.  frames and calls belong to    *)
(* the step-by-step run of create_blocks further down and stay empty here. *)
(***************************************************************************)
VARIABLES lines, pc, code, heap, visited, statements, idx, exc, raised, frames, calls

vars == <<lines, pc, code, heap, visited, statements, idx, exc, raised, frames, calls>>

Init ==
    /\ lines \in Inputs
    /\ pc = "start"
    /\ code = <<>>
    /\ heap = [n \in 1..Len(lines) |-> NullBlock]
    /\ visited = <<>>
    /\ statements = <<>>
    /\ idx = 1
    /\ exc = NoExc
    /\ raised = NoExc
    /\ frames = <<>>
    /\ calls = <<>>

\* the state after read_file_as_list returned or raised, with outcome r
Nested(r) ==
    /\ heap' = r.heap
    /\ visited' = r.visited
    /\ exc' = r.exc
    /\ code' = IF Raised(r.exc) THEN <<>> ELSE r.contents
    /\ pc' = IF Raised(r.exc) THEN "except" ELSE "loop"

\* the state after item.parse() returned or raised, with outcome r
Parsed(r) ==
    /\ heap' = r.heap
    /\ exc' = r.exc
    /\ statements' = IF Raised(r.exc) THEN statements ELSE Append(statements, r.val)
    /\ idx' = IF Raised(r.exc) THEN idx ELSE idx + 1
    /\ pc' = IF Raised(r.exc) THEN "except" ELSE "loop"

\* code = read_file_as_list(file_path)
ReadFile ==
    /\ pc = "start"
    /\ Nested(process_ram(tupled_lines(lines)))
    /\ UNCHANGED <<lines, statements, idx, raised, frames, calls>>

\* one iteration of: for item in code: statements.append(item.parse())
ParseItem ==
    /\ pc = "loop"
    /\ idx <= Len(code)
    /\ Parsed(ItemParse(code[idx], heap))
    /\ UNCHANGED <<lines, code, visited, raised, frames, calls>>

\* return Module(statements)
ReturnModule ==
    /\ pc = "loop"
    /\ idx > Len(code)
    /\ pc' = "returned"
    /\ UNCHANGED <<lines, code, heap, visited, statements, idx, exc, raised, frames, calls>>

\* except Exception as e: re-raise a RamException, wrap anything else
Except ==
    /\ pc = "except"
    /\ raised' = main_parser_handler(exc)
    /\ pc' = "raised"
    /\ UNCHANGED <<lines, code, heap, visited, statements, idx, exc, frames, calls>>

Next == ReadFile \/ ParseItem \/ ReturnModule \/ Except

Spec == Init /\ [][Next]_vars

(***************************************************************************)
(* create_blocks step by step: one action per iteration of its for loop    *)
(* and one per return.  frames is the call stack, the last frame being the *)
(* running call; a frame holds the call's line_index (counted from 1), its *)
(* contents, the block it is building while it waits for a recursive call, *)
(* and the number of lines not in visited when it was entered.  calls logs *)
(* every recursive call with that number for the caller and the callee.    *)
(* The input is chosen by the first step.                                  *)
(***************************************************************************)
MaxNest == 5

\* the lines create_blocks is run on here: process_ram has removed blank
\* and comment lines before
NestLines == {LoopHeader, IfHeader, Closer, ElseMarker, DisplayLine, UnknownLine}

NestInputs == UNION {[1..n -> NestLines] : n \in 1..MaxNest}

FileLines == tupled_lines(lines)

\* the number of lines whose number is not in visited
Unconsumed(file_lines, vis) ==
    Cardinality({i \in 1..Len(file_lines) : ~Has(vis, file_lines[i][2])})

\* a scan that takes every line for new
NotVisitedAlways(vis, number) == TRUE

\* file_lines[line_index][1] not in visited
NotVisited(vis, number) == ~Has(vis, number)

\* a line that is scanned but not recorded
ConsumeMissing(vis, number) == vis

\* visited.append(file_lines[line_index][1])
Consume(vis, number) == Append(vis, number)

\* the frame of create_blocks(file_lines, line_number, visited) on entry:
\* the for loop starts at line_number - 1, counted from 0
Frame(line_number, vis) ==
    [line_index |-> (line_number - 1) + 1, contents |-> <<>>, block |-> NullBlock,
     entry |-> Unconsumed(FileLines, vis)]

Top == frames[Len(frames)]

\* file_lines[line_index] of the running call
Here == FileLines[Top.line_index]

\* before process_ram calls create_blocks
InitBlocks ==
    /\ lines = <<>>
    /\ pc = "file"
    /\ code = <<>>
    /\ heap = <<>>
    /\ visited = <<>>
    /\ statements = <<>>
    /\ idx = 1
    /\ exc = NoExc
    /\ raised = NoExc
    /\ frames = <<>>
    /\ calls = <<>>

\* process_ram: return create_blocks(file_lines, 1, [])[0], on any of the
\* inputs
EnterBlocks ==
    /\ pc = "file"
    /\ lines' \in NestInputs
    /\ heap' = [n \in 1..Len(lines') |-> NullBlock]
    /\ frames' = <<[line_index |-> (1 - 1) + 1, contents |-> <<>>, block |-> NullBlock,
                    entry |-> Len(lines')]>>
    /\ pc' = "nest"
    /\ UNCHANGED <<code, visited, statements, idx, exc, raised, calls>>

\* the for loop of the running call has a line left
Scanning == pc = "nest" /\ Top.line_index <= Len(FileLines)

\* that line is not in visited: it is appended to visited
Fresh ==
    /\ Scanning
    /\ NotVisited(visited, Here[2])
    /\ visited' = Consume(visited, Here[2])

\* the running call goes on with the next line, item appended to contents
Advance(item) ==
    frames' = [frames EXCEPT ![Len(frames)] =
                  [@ EXCEPT !.contents = Append(@, item), !.line_index = @ + 1]]

\* a line whose number is in visited is passed over
SkipVisited ==
    /\ Scanning
    /\ ~NotVisited(visited, Here[2])
    /\ frames' = [frames EXCEPT ![Len(frames)].line_index = @ + 1]
    /\ UNCHANGED <<lines, pc, code, heap, visited, statements, idx, exc, raised, calls>>

\* a line with both braces is appended as it is
AppendBoth ==
    /\ Fresh
    /\ Has(Here[1], "{") /\ Has(Here[1], "}")
    /\ Advance(Tuple(Here[1], Here[2]))
    /\ UNCHANGED <<lines, pc, code, heap, statements, idx, exc, raised, calls>>

\* block = Block([...]) raised, or the recursive call
\* create_blocks(file_lines, line_index + 1, visited) is entered with vis
Opened(block, vis) ==
    IF Raised(block.exc)
    THEN /\ pc' = "failed"
         /\ exc' = block.exc
         /\ UNCHANGED <<frames, calls>>
    ELSE /\ frames' = Append([frames EXCEPT ![Len(frames)].block = block.val],
                             Frame((Top.line_index - 1) + 1, vis))
         /\ calls' = Append(calls, [caller |-> Top.entry,
                                    callee |-> Unconsumed(FileLines, vis)])
         /\ UNCHANGED <<pc, exc>>

\* a line with '{' alone opens a block; calls deeper than the input is long
\* are not followed
OpenBlock ==
    /\ Fresh
    /\ Has(Here[1], "{") /\ ~Has(Here[1], "}")
    /\ Len(calls) <= Len(FileLines)
    /\ Opened(Block(Here[1], Here[2]), Consume(visited, Here[2]))
    /\ UNCHANGED <<lines, code, heap, statements, idx, raised>>

\* a line with '}' alone: the marker is appended and the loop is left
CloseBlock ==
    /\ Fresh
    /\ ~Has(Here[1], "{") /\ Has(Here[1], "}")
    /\ frames' = [frames EXCEPT ![Len(frames)] =
                     [@ EXCEPT !.contents = Append(@, Tuple(<<"}">>, Here[2])),
                               !.line_index = Break(FileLines, @)]]
    /\ UNCHANGED <<lines, pc, code, heap, statements, idx, exc, raised, calls>>

\* line = Line(...) raised, or the Line is appended
Made(line) ==
    IF Raised(line.exc)
    THEN /\ pc' = "failed"
         /\ exc' = line.exc
         /\ UNCHANGED frames
    ELSE /\ Advance(line.val)
         /\ UNCHANGED <<pc, exc>>

\* any other line becomes a Line
MakeLine ==
    /\ Fresh
    /\ ~Has(Here[1], "{") /\ ~Has(Here[1], "}")
    /\ Made(Line(Here[1], Here[2]))
    /\ UNCHANGED <<lines, code, heap, statements, idx, raised, calls>>

\* the outermost call returns (contents, visited)
ReturnTop ==
    /\ pc = "nest"
    /\ Len(frames) = 1
    /\ Top.line_index > Len(FileLines)
    /\ pc' = "nested"
    /\ code' = Top.contents
    /\ UNCHANGED <<lines, heap, visited, statements, idx, exc, raised, frames, calls>>

\* block.evaluate_line() raised, or contents.append(block) in the caller
Resumed(caller, number, whole, made) ==
    IF Raised(made.exc)
    THEN /\ pc' = "failed"
         /\ exc' = made.exc
         /\ heap' = made.heap
         /\ UNCHANGED frames
    ELSE /\ frames' = [ButLast(frames) EXCEPT ![Len(frames) - 1] =
                          [@ EXCEPT !.contents = Append(@, BlockRef(number)),
                                    !.line_index = @ + 1]]
         /\ heap' = [made.heap EXCEPT ![number] =
                        [caller.block EXCEPT !.block = whole,
                                             !.contents = made.contents]]
         /\ UNCHANGED <<pc, exc>>

\* block.block += block.contents for the block of the caller and the
\* contents the running call returns
Whole(caller) == caller.block.block \o Top.contents

\* a recursive call returns to the frame below it
ReturnChild ==
    /\ pc = "nest"
    /\ Len(frames) > 1
    /\ Top.line_index > Len(FileLines)
    /\ \E made \in {evaluate_line(Whole(frames[Len(frames) - 1]), heap)} :
          Resumed(frames[Len(frames) - 1],
                  FileLines[frames[Len(frames) - 1].line_index][2],
                  Whole(frames[Len(frames) - 1]), made)
    /\ UNCHANGED <<lines, code, visited, statements, idx, raised, calls>>

NextBlocks ==
    \/ EnterBlocks
    \/ SkipVisited
    \/ AppendBoth
    \/ OpenBlock
    \/ CloseBlock
    \/ MakeLine
    \/ ReturnTop
    \/ ReturnChild

\* the interpreter runs the next statement of create_blocks whenever there
\* is one
SpecBlocks == InitBlocks /\ [][NextBlocks]_vars /\ WF_vars(NextBlocks)

(***************************************************************************)
(* Brace structure of the input, computed from the input alone.            *)
(***************************************************************************)
IsOpener(text) == Has(text, "{") /\ ~Has(text, "}")

IsCloser(text) == Has(text, "}") /\ ~Has(text, "{")

\* the numbers of the lines that are neither blank nor comments
Kept == {n \in 1..Len(lines) : lines[n] /= <<>> /\ lines[n][1] /= "%"}

Openers(from, to) == {n \in Kept : from <= n /\ n <= to /\ IsOpener(lines[n])}

Closers(from, to) == {n \in Kept : from <= n /\ n <= to /\ IsCloser(lines[n])}

CountBalanced == Cardinality(Openers(1, Len(lines))) = Cardinality(Closers(1, Len(lines)))

\* number of blocks open at line n, the block a line opens or closes included
BraceDepth(n) ==
    Cardinality(Openers(1, n)) - Cardinality(Closers(1, n - 1))

\* the line that closes the block opened at line n, 0 when there is none
MatchLine(n) ==
    LET ms == {m \in Kept : m > n /\ IsCloser(lines[m])
                  /\ Cardinality(Openers(n, m)) = Cardinality(Closers(n, m))}
    IN  IF ms = {} THEN 0 ELSE CHOOSE m \in ms : \A k \in ms : m <= k

Built == {id \in DOMAIN heap : heap[id].block /= <<>>}

RECURSIVE TreeDepths(_, _, _)
\* the pairs <<line number, nesting depth>> of the lines held in a list of
\* items; the elements of a block's list are one level below the block
TreeDepths(items, d, h) ==
    UNION {IF items[k].t = "Block" THEN TreeDepths(h[items[k].id].block, d + 1, h)
           ELSE {<<items[k].number, d>>} : k \in 1..Len(items)}

BlockShape(id) ==
    LET b == heap[id].block
    IN  /\ Len(b) >= 2
        /\ IsOpener(lines[id])
        /\ b[1] = Tuple(lines[id], id)
        /\ b[Len(b)] = Tuple(<<"}">>, MatchLine(id))
        /\ \A k \in 2..(Len(b) - 1) :
              b[k].t = "tuple" => (Has(b[k].text, "{") /\ Has(b[k].text, "}"))

\* C1: when the '{' lines and the '}' lines of the input are balanced, every
\* Block that create_blocks builds starts with its opener, ends with the '}'
\* marker of the matching line and holds no other opener or closer at its own
\* level, and every line of the nested result sits at its brace depth.
C1_BalancedBlocks ==
    (pc /= "start" /\ CountBalanced) =>
        /\ \A id \in Built : BlockShape(id)
        /\ \A p \in TreeDepths(code, 0, heap) : p[2] = BraceDepth(p[1])

\* a balanced input whose result holds a block inside a block
C1_Witness ==
    /\ pc = "returned"
    /\ CountBalanced
    /\ \E id \in Built : \E k \in 1..Len(heap[id].block) : heap[id].block[k].t = "Block"

Terminal == pc \in {"returned", "raised"}

\* Line(text, number).parse() for each line of a list of statement lines
ExpectedStatements(ls) == [i \in 1..Len(ls) |-> LineParse(Line(ls[i], i).val).val]

HasUnmatchedOpener == \E n \in Openers(1, Len(lines)) : MatchLine(n) = 0

\* C2: an input with a '{' opener line that has no matching '}' closer line
\* never yields a Module; main_parser ends by raising a block or syntax error.
C2_UnmatchedOpenerFails ==
    (HasUnmatchedOpener /\ Terminal) =>
        (pc = "raised" /\ raised.kind \in {"RamBlockException", "RamSyntaxException"})

\* the input is one function block whose body holds statement lines only
IsFunctionProgram ==
    /\ Len(lines) >= 2
    /\ lines[1] \in {FunctionHeader, FunctionHeader2}
    /\ lines[Len(lines)] = Closer
    /\ \A n \in 2..(Len(lines) - 2) : lines[n] \in {DisplayLine, SetLine}
    /\ Len(lines) >= 3 => lines[Len(lines) - 1] \in {DisplayLine, SetLine, SendLine, SendSum}

FunctionBodyLines == SubSeq(lines, 2, Len(lines) - 1)

EndsWithSend ==
    /\ FunctionBodyLines /= <<>>
    /\ Prefix(FunctionBodyLines[Len(FunctionBodyLines)], 2) = <<"send", "back">>

\* C3: a function block whose last body line is 'send back <expr>' parses to
\* a Function whose body is every other body statement in order and whose
\* return expression is the parse of <expr>; without such a line the body
\* keeps every statement and the return expression is Empty.
C3_FunctionReturn ==
    (IsFunctionProgram /\ Terminal) =>
        /\ pc = "returned"
        /\ Len(statements) = 1
        /\ statements[1].t = "Function"
        /\ heap[statements[1].body].contents[1].items =
              ExpectedStatements(IF EndsWithSend THEN ButLast(FunctionBodyLines)
                                 ELSE FunctionBodyLines)
        /\ statements[1].ret =
              (IF EndsWithSend
               THEN parse_expression(From(FunctionBodyLines[Len(FunctionBodyLines)], 3)).val
               ELSE EmptyExpr)

RECURSIVE ExpectedLoop(_)
\* d loops around one display statement, each body a flat list of statements
ExpectedLoop(d) ==
    IF d = 0 THEN LineParse(Line(DisplayLine, 1).val).val
    ELSE [t |-> "Loop", var |-> "x", start |-> Leaf("0"), stop |-> Leaf("4"),
          body |-> <<ExpectedLoop(d - 1)>>]

LoopNest(d) == Repeat(LoopHeader, d) \o <<DisplayLine>> \o Repeat(Closer, d)

\* C5: loops nested d deep around a display line parse to Loop statements
\* nested d deep, the body of each Loop being the flat sequence of its body
\* statements with no extra list level.
C5_NestedLoopsFlat ==
    \A d \in 1..MaxDepth :
        (lines = LoopNest(d) /\ Terminal) =>
            (pc = "returned" /\ statements = <<ExpectedLoop(d)>>)

\* C7: every failure that reaches the caller carries the raw text and the
\* 1-based number of the offending line of the input.
C7_ErrorsCarryLine ==
    pc = "raised" =>
        (raised.number \in 1..Len(lines) /\ raised.line = lines[raised.number])

IsStatementLine(text) == text /= <<>> /\ text[1] /= "%" /\ ~Has(text, "{") /\ ~Has(text, "}")

\* C8: classifying a line fails with a syntax error when it has fewer than
\* two words, otherwise succeeds with a token record headed by the keyword
\* when the first word is set, reset, send, display or call, otherwise fails
\* with a keyword error naming the first word and carrying the line's text
\* and number.
C8_LineClassification ==
    (pc /= "start" /\ Len(lines) = 1 /\ IsStatementLine(lines[1])) =>
        LET l == lines[1]
        IN  IF Len(l) < 2 THEN exc.kind = "RamSyntaxException"
            ELSE IF l[1] \in {"set", "reset", "send", "display", "call"}
            THEN /\ Len(code) = 1
                 /\ code[1].t = "Line"
                 /\ code[1].strs.words /= <<>>
                 /\ code[1].strs.words[1] = l[1]
            ELSE /\ exc.kind = "RamSyntaxKeywordException"
                 /\ exc.msg = l[1]
                 /\ exc.line = l
                 /\ exc.number = 1

\* C9: in a complete run every Block built by create_blocks has parse()
\* invoked on it exactly once.
C9_ParsedOnce ==
    /\ \A id \in Built : heap[id].parses <= 1
    /\ pc = "returned" => \A id \in Built : heap[id].parses = 1

IsLoopProgram ==
    /\ Len(lines) = 2
    /\ lines[1] /= <<>>
    /\ lines[1][1] = "loop"
    /\ IsOpener(lines[1])
    /\ lines[2] = Closer

\* the words of a loop header strictly between the tokens from and to, and
\* the words after the token to
BetweenFromAndTo(h) == SubSeq(h, IndexOf(h, "from") + 1, IndexOf(h, "to") - 1)

AfterTo(h) == SubSeq(h, IndexOf(h, "to") + 1, Len(h) - 1)

\* C10: LoopBlock.parse fails with a keyword error naming word 1 when it is
\* not 'with', else with a keyword error naming word 3 when it is not 'from',
\* and only otherwise takes start and stop from the text after 'from', split
\* at the token 'to'.
C10_LoopHeaderValidated ==
    (IsLoopProgram /\ Terminal) =>
        LET h == lines[1]
        IN  IF h[2] /= "with"
            THEN exc.kind = "RamSyntaxKeywordException" /\ exc.msg = h[2]
            ELSE IF h[4] /= "from"
            THEN exc.kind = "RamSyntaxKeywordException" /\ exc.msg = h[4]
            ELSE /\ pc = "returned"
                 /\ statements[1].start = parse_expression(BetweenFromAndTo(h)).val
                 /\ statements[1].stop = parse_expression(AfterTo(h)).val

RECURSIVE ChainParts(_, _, _)
\* the branches of the if block the input consists of, from line i on: each
\* part is the header or marker that starts a branch and the lines of its
\* body up to the next marker of the block's own level
ChainParts(i, depth, parts) ==
    LET cur == parts[Len(parts)]
        add == Append(ButLast(parts), [cur EXCEPT !.body = Append(@, lines[i])])
    IN  IF i > Len(lines) THEN parts
        ELSE IF IsOpener(lines[i]) THEN ChainParts(i + 1, depth + 1, add)
        ELSE IF IsCloser(lines[i])
        THEN IF depth = 0 THEN parts ELSE ChainParts(i + 1, depth - 1, add)
        ELSE IF Has(lines[i], "{") /\ depth = 0
        THEN ChainParts(i + 1, depth, Append(parts, [head |-> lines[i], body |-> <<>>]))
        ELSE ChainParts(i + 1, depth, add)

Parts == ChainParts(2, 0, <<[head |-> lines[1], body |-> <<>>]>>)

\* the statements of a branch body parsed as a program of its own
ParseBody(body) ==
    LET p == process_ram(tupled_lines(body))
    IN  ParseAll(p.contents, 1, <<>>, p.heap).statements

ExpectedCondition(head) ==
    IF head = IfHeader
    THEN [t |-> "BinaryOp", op |-> "is", left |-> Leaf("c"), right |-> Leaf("1")]
    ELSE Leaf("d")

RECURSIVE ChainOK(_, _, _)
\* stmt is the If of branch j: one (condition, then-body) pair, and as else
\* part the next link alone, or the flat else body after the last branch
ChainOK(stmt, parts, j) ==
    /\ stmt.t = "If"
    /\ Len(stmt.branches) = 1
    /\ stmt.branches[1].cond = ExpectedCondition(parts[j].head)
    /\ stmt.branches[1].body = ParseBody(parts[j].body)
    /\ IF j = Len(parts) - 1
       THEN stmt.else_body = ParseBody(parts[j + 1].body)
       ELSE Len(stmt.else_body) = 1 /\ ChainOK(stmt.else_body[1], parts, j + 1)

\* C4: an if / else if / ... / else chain with k conditional branches and a
\* plain else parses into k right-nested If statements: each but the last has
\* one (condition, then-body) pair and the next If as its only else
\* statement, the last has the flat else body, and every body holds its own
\* statements in document order.
C4_ChainNesting ==
    (lines \in ChainInputs /\ Terminal) =>
        /\ pc = "returned"
        /\ Len(statements) = 1
        /\ Len(Parts) >= 2
        /\ ChainOK(statements[1], Parts, 1)

\* a parsed chain with at least two conditional branches and a non-empty
\* else body
C4_Witness ==
    /\ lines \in ChainInputs
    /\ pc = "returned"
    /\ Len(Parts) >= 3
    /\ Parts[Len(Parts)].body /= <<>>
    /\ statements[1].else_body[1].t = "If"

\* C6: main_parser lets no failure out that is neither a RamException nor
\* the general wrapper: a RamException is raised again unchanged, any other
\* failure is raised as RamGeneralException carrying its message; a Module
\* is returned only when nothing failed.
C6_OnlyTaxonomyEscapes ==
    /\ pc = "raised" =>
          /\ Raised(exc)
          /\ IsRamException(exc) => raised = exc
          /\ ~IsRamException(exc) =>
                (raised.kind = "RamGeneralException" /\ raised.msg = exc.msg)
    /\ pc = "returned" => ~Raised(exc)

\* a failure outside the taxonomy was caught and wrapped
C6_Witness ==
    /\ pc = "raised"
    /\ exc.kind \in {"TypeError", "IndexError", "AttributeError"}
    /\ raised.kind = "RamGeneralException"

(***************************************************************************)
(* Termination and placement of lines in create_blocks, on SpecBlocks.     *)
(***************************************************************************)
\* create_blocks has returned to process_ram or has raised
Finished == pc \in {"nested", "failed"}

\* every recursive call so far was entered with fewer unconsumed lines than
\* its caller had on entry
DecreasingCalls == \A k \in 1..Len(calls) : calls[k].callee < calls[k].caller

\* C11: create_blocks terminates on every input, balanced or not: each
\* recursive call is entered with strictly fewer lines outside visited than
\* its caller had on entry, there are never more recursive calls than input
\* lines, and the outermost call eventually returns or raises.
C11_CreateBlocksTerminates ==
    /\ [](DecreasingCalls /\ Len(calls) <= Len(lines))
    /\ <>Finished

\* an input with unbalanced braces on which a recursive call made a
\* recursive call and the outermost call returned
C11_Witness ==
    /\ pc = "nested"
    /\ ~CountBalanced
    /\ \E k \in 1..Len(calls) : calls[k].caller < Len(lines)

NoDuplicates(seq) == \A i, j \in 1..Len(seq) : i /= j => seq[i] /= seq[j]

IsPrefix(s, t) == Len(s) <= Len(t) /\ \A i \in 1..Len(s) : s[i] = t[i]

RECURSIVE Flatten(_, _, _)
\* the line numbers held in items from index k on, depth-first: a Block
\* stands for the numbers of its list (opener, children, closer)
Flatten(items, k, h) ==
    IF k > Len(items) THEN <<>>
    ELSE (IF items[k].t = "Block" THEN Flatten(h[items[k].id].block, 1, h)
          ELSE <<items[k].number>>) \o Flatten(items, k + 1, h)

\* the numbers of the input lines in their order
InputNumbers == [i \in 1..Len(lines) |-> FileLines[i][2]]

\* every '}' line has an earlier '{' line left to match
ClosersMatched ==
    \A m \in Closers(1, Len(lines)) :
        Cardinality(Closers(1, m)) <= Cardinality(Openers(1, m))

\* the outermost scan ended at a '}' line
StoppedAtCloser ==
    /\ code /= <<>>
    /\ code[Len(code)].t = "tuple"
    /\ code[Len(code)].text = <<"}">>

\* what holds of visited and of the nested result whatever the scan stops at
PlacedOnce(flat) ==
    /\ NoDuplicates(flat)
    /\ IsPrefix(flat, InputNumbers)
    /\ visited = flat
    /\ ClosersMatched => flat = InputNumbers

\* C12 as stated: no line number enters visited twice, and the nested result
\* holds each line once, flattens to a prefix of the input in its order, the
\* whole input when every '}' line matches an earlier '{' line, and a proper
\* prefix exactly when the outermost scan stopped at an unmatched '}' line.
C12_ProperPrefixAtCloser ==
    /\ NoDuplicates(visited)
    /\ pc = "nested" =>
          /\ PlacedOnce(Flatten(code, 1, heap))
          /\ Flatten(code, 1, heap) /= InputNumbers <=> StoppedAtCloser

\* C12, amended: as above, but the prefix is proper exactly when the
\* outermost scan stopped at an unmatched '}' line that is not the last line
\* of the input; the lines after it are never put in visited.
C12_LinesPlacedOnce ==
    /\ NoDuplicates(visited)
    /\ pc = "nested" =>
          /\ PlacedOnce(Flatten(code, 1, heap))
          /\ Flatten(code, 1, heap) /= InputNumbers
                <=> (StoppedAtCloser /\ code[Len(code)].number < Len(lines))

\* a nested block, then an unmatched '}' line with lines after it: the result
\* holds the lines up to that '}' and visited holds no later line
C12_Witness ==
    /\ pc = "nested"
    /\ \E k \in 1..Len(code) : code[k].t = "Block"
    /\ StoppedAtCloser
    /\ Len(visited) < Len(lines)
    /\ Flatten(code, 1, heap) = visited

====
